---------------------------- MODULE Spec2Model ----------------------------
(***************************************************************************)
(* Model of src/utils.py (DeepDream-PyTorch): the Utils object (profile,   *)
(* clip, denormalize, circular shift, CPU cascade blur) and the            *)
(* CascadeGaussianSmoothing module (kernel bank, reflect pad, depthwise    *)
(* convolution).                                                           *)
(*                                                                         *)
(* Tensors are records [shape, val]: shape is the tuple of dimension       *)
(* sizes, val maps every 0-based index tuple to an element.  Image tensors *)
(* hold exact rationals <<n, d>> (d > 0, lowest terms); gradient tensors   *)
(* hold fixed-point integers in units of 1/Scale and carry the device they *)
(* live on ("cpu" or "cuda").                                              *)
(***************************************************************************)
EXTENDS Integers, Sequences

VARIABLES
    utils,      \* the Utils object, NoUtils before a successful construction
    tensor,     \* the image tensor (or pixel image) the caller holds
    smoother,   \* the CascadeGaussianSmoothing object
    grad,       \* the gradient tensor the caller holds
    call,       \* the last call: its operation, arguments, input, result, exception
    cuda_available  \* torch.cuda.is_available() on this host

vars == <<utils, tensor, smoother, grad, call, cuda_available>>

(***************************************************************************)
(* Bounds of the model.                                                    *)
(***************************************************************************)
MaxBatch == 2
MaxH == 2
MaxW == 3
MaxShift == 3
MaxGen == 2
MaxDim == 5

\* Fixed-point unit of the gradient values and kernel weights (1/Scale), and the
\* number of series terms of the exponential.
Scale == 1000
ExpTerms == 8

\* Channel counts of the tensors drawn: one grey channel, two channels (which
\* do not broadcast against the three means), or RGB.
ChannelCounts == {1, 2, 3}

(***************************************************************************)
(* Exact rational arithmetic.                                              *)
(***************************************************************************)
Abs(x) == IF x < 0 THEN -x ELSE x

RECURSIVE GCD(_, _)
GCD(a, b) == IF b = 0 THEN a ELSE GCD(b, a % b)

Rat(n, d) ==
    LET g == GCD(Abs(n), Abs(d))
        s == IF d < 0 THEN -1 ELSE 1
    IN  <<(s * n) \div g, (s * d) \div g>>

RInt(n) == <<n, 1>>
RAdd(x, y) == Rat(x[1] * y[2] + y[1] * x[2], x[2] * y[2])
RSub(x, y) == Rat(x[1] * y[2] - y[1] * x[2], x[2] * y[2])
RMul(x, y) == Rat(x[1] * y[1], x[2] * y[2])
RDiv(x, y) == Rat(x[1] * y[2], x[2] * y[1])
RNeg(x) == <<-x[1], x[2]>>
RLe(x, y) == x[1] * y[2] <= y[1] * x[2]
RLt(x, y) == x[1] * y[2] < y[1] * x[2]

(***************************************************************************)
(* Tensors.                                                                *)
(***************************************************************************)
Indices(shape) ==
    IF Len(shape) = 4
    THEN {<<b, c, i, j>> : b \in 0..(shape[1] - 1), c \in 0..(shape[2] - 1),
                           i \in 0..(shape[3] - 1), j \in 0..(shape[4] - 1)}
    ELSE IF Len(shape) = 3
    THEN {<<a, b, c>> : a \in 0..(shape[1] - 1), b \in 0..(shape[2] - 1),
                        c \in 0..(shape[3] - 1)}
    ELSE IF Len(shape) = 2
    THEN {<<a, b>> : a \in 0..(shape[1] - 1), b \in 0..(shape[2] - 1)}
    ELSE {}

NoTensor == [shape |-> <<>>, val |-> <<>>]

\* Row-major position of an index tuple.
RECURSIVE Linear(_, _)
Linear(shape, idx) ==
    IF Len(shape) = 0 THEN 0
    ELSE LET n == Len(shape)
         IN  Linear(SubSeq(shape, 1, n - 1), SubSeq(idx, 1, n - 1)) * shape[n] + idx[n]

(***************************************************************************)
(* Utils.__init__ and the profile registry.                                *)
(***************************************************************************)
NoUtils == [constructed |-> FALSE, model_name |-> "", mean |-> <<>>, stdv |-> <<>>,
            img_size |-> 0]

\* vgg19_param_init: the attributes it sets.
vgg19_param_init ==
    [mean |-> <<Rat(485, 1000), Rat(456, 1000), Rat(406, 1000)>>,
     stdv |-> <<Rat(229, 1000), Rat(224, 1000), Rat(225, 1000)>>,
     img_size |-> 600]

\* Mutant: every model name is registered.
model_mapping_any_name == [n \in {"vgg19", "vgg16", "unknown_model"} |-> vgg19_param_init]

\* model_mapping: the registered initializers, by model name.
model_mapping == [n \in {"vgg19"} |-> vgg19_param_init]

\* Utils(model_name): the object built, or the exception of the failed lookup.
UtilsNew(model_name) ==
    IF model_name \in DOMAIN model_mapping
    THEN [obj |-> [constructed |-> TRUE, model_name |-> model_name,
                   mean |-> model_mapping[model_name].mean,
                   stdv |-> model_mapping[model_name].stdv,
                   img_size |-> model_mapping[model_name].img_size],
          err |-> "none"]
    ELSE [obj |-> NoUtils, err |-> "KeyError"]

(***************************************************************************)
(* Utils.clip                                                              *)
(***************************************************************************)
\* torch.clamp on one element.
Clamp(x, lo, hi) == IF RLt(x, lo) THEN lo ELSE IF RLt(hi, x) THEN hi ELSE x

ChLo(u, c) == RDiv(RNeg(u.mean[c + 1]), u.stdv[c + 1])
ChHi(u, c) == RDiv(RSub(RInt(1), u.mean[c + 1]), u.stdv[c + 1])

\* Channels the loop of clip reaches before self.mean[channel] raises.
ClipChannels(u, t) == {c \in 0..(t.shape[2] - 1) : c < Len(u.mean)}

\* Mutant: the clamp is done in pixel space and the result is not normalised back.
ClipInPixelSpace(u, t) ==
    [shape |-> t.shape,
     val |-> [idx \in Indices(t.shape) |->
                IF idx[1] = 0 /\ idx[2] \in ClipChannels(u, t)
                THEN Clamp(RAdd(RMul(t.val[idx], u.stdv[idx[2] + 1]), u.mean[idx[2] + 1]),
                           RInt(0), RInt(1))
                ELSE t.val[idx]]]

\* Mutant: the upper bound is 1/std, the mean is not subtracted.
ClipHiWithoutMean(u, t) ==
    [shape |-> t.shape,
     val |-> [idx \in Indices(t.shape) |->
                IF idx[1] = 0 /\ idx[2] \in ClipChannels(u, t)
                THEN Clamp(t.val[idx], ChLo(u, idx[2]), RDiv(RInt(1), u.stdv[idx[2] + 1]))
                ELSE t.val[idx]]]

\* The tensor after clip: tensor[0, channel] is clamped for every channel.
Clip(u, t) ==
    [shape |-> t.shape,
     val |-> [idx \in Indices(t.shape) |->
                IF idx[1] = 0 /\ idx[2] \in ClipChannels(u, t)
                THEN Clamp(t.val[idx], ChLo(u, idx[2]), ChHi(u, idx[2]))
                ELSE t.val[idx]]]

ClipErr(u, t) == IF t.shape[2] > Len(u.mean) THEN "IndexError" ELSE "none"

(***************************************************************************)
(* Utils.denormalize                                                       *)
(***************************************************************************)
\* Mutant: the leading dimension is always dropped (batch 0 is taken).
Squeeze0Always(t) ==
    [shape |-> Tail(t.shape),
     val |-> [idx \in Indices(Tail(t.shape)) |-> t.val[<<0>> \o idx]]]

\* tensor.squeeze(0): the leading dimension is dropped only when its size is 1.
Squeeze0(t) ==
    IF t.shape[1] = 1
    THEN [shape |-> Tail(t.shape),
          val |-> [idx \in Indices(Tail(t.shape)) |-> t.val[<<0>> \o idx]]]
    ELSE t

\* Position, in the broadcast result, of the axis paired with the 3 of a
\* (3, 1, 1) array: a 2-d array gets it as a new leading axis.
ChAxis(t) == IF Len(t.shape) = 2 THEN 1 ELSE Len(t.shape) - 2

BroadcastOk(t) == Len(t.shape) = 2 \/ t.shape[ChAxis(t)] \in {1, 3}

BroadcastShape(t) ==
    IF Len(t.shape) = 2 THEN <<3>> \o t.shape ELSE [t.shape EXCEPT ![ChAxis(t)] = 3]

\* The element of t that broadcasting pairs with index idx of the result.
BroadcastSrc(t, idx) ==
    IF Len(t.shape) = 2 THEN Tail(idx)
    ELSE IF t.shape[ChAxis(t)] = 1 THEN [idx EXCEPT ![ChAxis(t)] = 0] ELSE idx

\* Mutant: the mean is added before the multiplication by stdv.
ScaleShiftAddFirst(u, t) ==
    [shape |-> BroadcastShape(t),
     val |-> [idx \in Indices(BroadcastShape(t)) |->
                RMul(RAdd(t.val[BroadcastSrc(t, idx)], u.mean[idx[ChAxis(t)] + 1]),
                     u.stdv[idx[ChAxis(t)] + 1])]]

\* (tensor * stdv) + mean with stdv, mean reshaped to (3, 1, 1).
ScaleShift(u, t) ==
    [shape |-> BroadcastShape(t),
     val |-> [idx \in Indices(BroadcastShape(t)) |->
                RAdd(RMul(t.val[BroadcastSrc(t, idx)], u.stdv[idx[ChAxis(t)] + 1]),
                     u.mean[idx[ChAxis(t)] + 1])]]

\* ndarray.transpose(1, 2, 0) of a 3-dimensional array.
Transpose120(t) ==
    LET s == <<t.shape[2], t.shape[3], t.shape[1]>>
    IN  [shape |-> s, val |-> [idx \in Indices(s) |-> t.val[<<idx[3], idx[1], idx[2]>>]]]

\* denormalize(tensor): the image returned, or the exception raised.  The
\* product tensor * stdv with a numpy stdv is computed by numpy, whose
\* broadcasting failure is a ValueError, as is that of transpose(1, 2, 0) on an
\* array that is not 3-d.
Denormalize(u, t) ==
    LET sq == Squeeze0(t)
    IN  IF ~BroadcastOk(sq) THEN [out |-> NoTensor, err |-> "ValueError"]
        ELSE IF Len(BroadcastShape(sq)) # 3 THEN [out |-> NoTensor, err |-> "ValueError"]
        ELSE [out |-> Transpose120(ScaleShift(u, sq)), err |-> "none"]

(***************************************************************************)
(* self.normalize = T.Normalize(mean, std): applied to a tensor image      *)
(* (C, H, W), it subtracts the mean and divides by the std of the channel, *)
(* in place on a copy, and returns a tensor of the shape of its input.  It *)
(* adds no batch dimension and changes no layout.                          *)
(***************************************************************************)
\* The torchvision releases, by what normalize does with a tensor that is not
\* 3-d: TypeError up to 0.5, ValueError in 0.6 and 0.7; from 0.8 on only a
\* tensor of fewer than 3 dimensions is refused (ValueError).
TorchvisionEras == {"<=0.5", "0.6-0.7", ">=0.8"}

\* The in-place subtraction needs the (3, 1, 1) means to broadcast to exactly
\* the shape of the tensor: the third axis from the end must have size 3.
TNormalizeOk(u, t) == t.shape[Len(t.shape) - 2] = Len(u.mean)

\* utils.normalize(x) for x of the given type ("tensor" for a torch tensor,
\* "ndarray" for an image array) under a torchvision release:
\* (x - mean[c]) / std[c] with c the index of the third axis from the end, or
\* the exception raised.
TNormalize(u, t, type, tv) ==
    IF type # "tensor" THEN [out |-> NoTensor, err |-> "TypeError"]
    ELSE IF Len(t.shape) # 3 /\ tv = "<=0.5" THEN [out |-> NoTensor, err |-> "TypeError"]
    ELSE IF Len(t.shape) # 3 /\ tv = "0.6-0.7" THEN [out |-> NoTensor, err |-> "ValueError"]
    ELSE IF Len(t.shape) < 3 THEN [out |-> NoTensor, err |-> "ValueError"]
    ELSE IF ~TNormalizeOk(u, t) THEN [out |-> NoTensor, err |-> "RuntimeError"]
    ELSE [out |-> [shape |-> t.shape,
                   val |-> [idx \in Indices(t.shape) |->
                              RDiv(RSub(t.val[idx], u.mean[idx[Len(t.shape) - 2] + 1]),
                                   u.stdv[idx[Len(t.shape) - 2] + 1])]],
          err |-> "none"]

(***************************************************************************)
(* Utils.random_circular_spatial_shift                                     *)
(***************************************************************************)
\* Mutant: the roll fills the vacated rows and columns with the edge element
\* instead of wrapping.
RollNoWrap(t, h_shift, w_shift) ==
    LET H == t.shape[3]
        W == t.shape[4]
        Cl(x, n) == IF x < 0 THEN 0 ELSE IF x > n - 1 THEN n - 1 ELSE x
    IN  [shape |-> t.shape,
         val |-> [idx \in Indices(t.shape) |->
                    t.val[<<idx[1], idx[2], Cl(idx[3] - h_shift, H), Cl(idx[4] - w_shift, W)>>]]]

\* torch.roll(tensor, shifts=(h_shift, w_shift), dims=(2, 3)).
Roll(t, h_shift, w_shift) ==
    LET H == t.shape[3]
        W == t.shape[4]
    IN  [shape |-> t.shape,
         val |-> [idx \in Indices(t.shape) |->
                    t.val[<<idx[1], idx[2], (idx[3] - h_shift) % H, (idx[4] - w_shift) % W>>]]]

\* Mutant: should_undo negates only the vertical shift.
ShiftUndoHOnly(t, h_shift, w_shift, should_undo) ==
    IF should_undo THEN Roll(t, -h_shift, w_shift) ELSE Roll(t, h_shift, w_shift)

random_circular_spatial_shift(t, h_shift, w_shift, should_undo) ==
    IF should_undo THEN Roll(t, -h_shift, -w_shift) ELSE Roll(t, h_shift, w_shift)

(***************************************************************************)
(* Fixed-point arithmetic of the smoothing paths.                          *)
(***************************************************************************)
\* a / b rounded to the nearest integer, b > 0.
RoundDiv(a, b) == IF a >= 0 THEN (2 * a + b) \div (2 * b) ELSE -((2 * (-a) + b) \div (2 * b))

RECURSIVE SumRange(_, _, _)
SumRange(f, lo, hi) == IF lo > hi THEN 0 ELSE f[lo] + SumRange(f, lo + 1, hi)

\* Evaluates a tensor once, so that later reads do not recompute its elements.
Materialize(t) == IF t = t THEN t ELSE t

RECURSIVE ExpSeries(_, _, _, _, _)
ExpSeries(num, den, i, term, acc) ==
    IF i > ExpTerms THEN acc
    ELSE LET t == RoundDiv(term * num, den * i)
         IN  ExpSeries(num, den, i + 1, t, IF i % 2 = 1 THEN acc - t ELSE acc + t)

\* unit * exp(-num/den), num >= 0, den > 0.
RECURSIVE ExpNegFx(_, _, _)
ExpNegFx(num, den, unit) ==
    IF num <= den THEN ExpSeries(num, den, 1, unit, unit)
    ELSE LET h == ExpNegFx(num, 2 * den, unit) IN RoundDiv(h * h, unit)

\* Scale * sqrt(2 * pi)
Sqrt2PiFx == RoundDiv(25066 * Scale, 10000)

(***************************************************************************)
(* CascadeGaussianSmoothing.__init__                                       *)
(* A standard deviation is held in halves: s2 = 2 * std.                   *)
(***************************************************************************)
\* cascade_coefficients [0.5, 1.0, 2.0], in halves.
cascade_coefficients2 == <<1, 2, 4>>

\* sigmas: coeff * sigma for the three scales, in halves.
CascadeSigmas2(sigma) == [n \in 1..3 |-> cascade_coefficients2[n] * sigma]

\* 1 / (std * sqrt(2 pi)) * exp(-((i - mean) / std)^2 / 2), mean = (size - 1) / 2.
Gauss1d(size, s2, i) ==
    LET a == 2 * i - (size - 1)
        pref == RoundDiv(2 * Scale * Scale, s2 * Sqrt2PiFx)
    IN  RoundDiv(pref * ExpNegFx(a * a, 2 * s2 * s2, Scale), Scale)

\* The product of the two 1-d Gaussians on the meshgrid (units 1/Scale^2).
Kernel2d(size, s2) ==
    Materialize([ij \in (0..(size - 1)) \X (0..(size - 1)) |->
                    Gauss1d(size, s2, ij[1]) * Gauss1d(size, s2, ij[2])])

KernelSum(size, K) ==
    SumRange([i \in 0..(size - 1) |->
                SumRange([j \in 0..(size - 1) |-> K[<<i, j>>]], 0, size - 1)], 0, size - 1)

\* Mutant: the kernel is not divided by its sum.
PreparedKernelUnnormalised(size, s2) ==
    LET K == Kernel2d(size, s2)
    IN  Materialize([shape |-> <<3, 1, size, size>>,
                     val |-> [idx \in Indices(<<3, 1, size, size>>) |->
                                RoundDiv(K[<<idx[3], idx[4]>>], Scale)]])

\* kernel / torch.sum(kernel), viewed as (1, 1, k, k) and repeated for 3 channels.
PreparedKernel(size, s2) ==
    LET K == Kernel2d(size, s2)
        total == KernelSum(size, K)
    IN  Materialize([shape |-> <<3, 1, size, size>>,
                     val |-> [idx \in Indices(<<3, 1, size, size>>) |->
                                RoundDiv(K[<<idx[3], idx[4]>>] * Scale, total)]])

\* Mutant: the padding is one less than half the kernel size.
PadOfShort(kernel_size) == (kernel_size \div 2) - 1

\* self.pad = int(kernel_size / 2)
PadOf(kernel_size) == kernel_size \div 2

\* tensor.to(device), tensor.cpu(): the same values on the device.
ToDevice(t, d) == [shape |-> t.shape, val |-> t.val, device |-> d]

\* What kernel.to('cuda') raises on a host without CUDA: AssertionError from a
\* torch built without CUDA, RuntimeError from a CUDA build that finds no device.
CudaErrors == {"AssertionError", "RuntimeError"}

NoSmoother == [constructed |-> FALSE, kernel_size |-> 0, sigma |-> 0, pad |-> 0,
               weight1 |-> NoTensor, weight2 |-> NoTensor, weight3 |-> NoTensor]

\* CascadeGaussianSmoothing(kernel_size, sigma) on a host with or without CUDA:
\* the object with its three buffers on the CUDA device, or the exception e of
\* kernel.to('cuda') and no object.
SmootherNew(kernel_size, sigma, cuda, e) ==
    IF cuda
    THEN [obj |-> [constructed |-> TRUE,
                   kernel_size |-> kernel_size,
                   sigma |-> sigma,
                   pad |-> PadOf(kernel_size),
                   weight1 |-> ToDevice(PreparedKernel(kernel_size, CascadeSigmas2(sigma)[1]),
                                        "cuda"),
                   weight2 |-> ToDevice(PreparedKernel(kernel_size, CascadeSigmas2(sigma)[2]),
                                        "cuda"),
                   weight3 |-> ToDevice(PreparedKernel(kernel_size, CascadeSigmas2(sigma)[3]),
                                        "cuda")],
          err |-> "none"]
    ELSE [obj |-> NoSmoother, err |-> e]

(***************************************************************************)
(* CascadeGaussianSmoothing.forward                                        *)
(***************************************************************************)
\* Source position of padded position x under torch's reflect mode.
ReflectIdx(x, n) == IF x < 0 THEN -x ELSE IF x > n - 1 THEN 2 * (n - 1) - x ELSE x

ReflectPadOk(t, p) == p < t.shape[3] /\ p < t.shape[4]

\* torch.nn.functional.pad(input, [p, p, p, p], mode='reflect')
ReflectPad(t, p) ==
    LET s == <<t.shape[1], t.shape[2], t.shape[3] + 2 * p, t.shape[4] + 2 * p>>
    IN  Materialize([shape |-> s,
                     val |-> [idx \in Indices(s) |->
                                t.val[<<idx[1], idx[2], ReflectIdx(idx[3] - p, t.shape[3]),
                                        ReflectIdx(idx[4] - p, t.shape[4])>>]]])

\* conv2d(input, weight, groups=3): no padding, stride 1, one kernel per channel.
Conv2dDepthwise(x, w) ==
    LET kh == w.shape[3]
        kw == w.shape[4]
        s == <<x.shape[1], x.shape[2], x.shape[3] - kh + 1, x.shape[4] - kw + 1>>
    IN  Materialize([shape |-> s,
                     val |-> [idx \in Indices(s) |->
                        RoundDiv(
                          SumRange([u \in 0..(kh - 1) |->
                            SumRange([v \in 0..(kw - 1) |->
                                        x.val[<<idx[1], idx[2], idx[3] + u, idx[4] + v>>]
                                          * w.val[<<idx[2], 0, u, v>>]],
                                     0, kw - 1)],
                            0, kh - 1),
                          Scale)]])

TensorAdd3(a, b, c) ==
    [shape |-> a.shape, val |-> [idx \in Indices(a.shape) |-> a.val[idx] + b.val[idx] + c.val[idx]]]

\* forward(input): the smoothed tensor, or the exception raised.  The pad is
\* done on the input's device; conv2d raises when the input is not on the
\* device of the weights.
Forward(sm, x) ==
    IF ~ReflectPadOk(x, sm.pad) THEN [out |-> NoTensor, err |-> "RuntimeError"]
    ELSE IF x.device # sm.weight1.device THEN [out |-> NoTensor, err |-> "RuntimeError"]
    ELSE IF x.shape[2] # 3 THEN [out |-> NoTensor, err |-> "RuntimeError"]
    ELSE LET padded == ReflectPad(x, sm.pad)
         IN  [out |-> ToDevice(TensorAdd3(Conv2dDepthwise(padded, sm.weight1),
                                          Conv2dDepthwise(padded, sm.weight2),
                                          Conv2dDepthwise(padded, sm.weight3)),
                               x.device),
              err |-> "none"]

(***************************************************************************)
(* Utils.gausian_blur: scipy.ndimage gaussian_filter with a scalar sigma   *)
(* filters along every axis of the array in turn.                          *)
(***************************************************************************)
\* Kernel radius: int(truncate * sd + 0.5) with truncate = 4.0, sd = s2 / 2.
FilterRadius(s2) == (4 * s2 + 1) \div 2

\* Fixed-point unit of the filter kernel before it is divided by its sum.
FilterUnit == 10 * Scale

\* exp(-0.5 / sd^2 * x^2), x in -radius..radius: the kernel before it is
\* divided by its sum.
FilterWeights(s2) ==
    LET lw == FilterRadius(s2)
    IN  Materialize([x \in (-lw)..lw |-> ExpNegFx(2 * x * x, s2 * s2, FilterUnit)])

\* The sum the kernel is divided by, so that its weights sum to 1.
FilterWeightSum(s2) == SumRange(FilterWeights(s2), -FilterRadius(s2), FilterRadius(s2))

\* Source position of position x under scipy's reflect mode (d c b a | a b c d).
SymmetricIdx(x, n) == LET m == x % (2 * n) IN IF m < n THEN m ELSE 2 * n - 1 - m

\* gaussian_filter1d along one axis (1-based), mode reflect: the correlation
\* with the kernel divided by its sum.
Filter1d(t, axis, s2) ==
    LET lw == FilterRadius(s2)
        w == FilterWeights(s2)
        total == FilterWeightSum(s2)
        n == t.shape[axis]
    IN  Materialize([shape |-> t.shape,
                     val |-> [idx \in Indices(t.shape) |->
                        RoundDiv(
                          SumRange([k \in (-lw)..lw |->
                                      w[k] * t.val[[idx EXCEPT ![axis] = SymmetricIdx(idx[axis] + k, n)]]],
                                   -lw, lw),
                          total)]])

\* gaussian_filter(input, sigma): every axis, in order.
GaussianFilter(t, s2) == Filter1d(Filter1d(Filter1d(Filter1d(t, 1, s2), 2, s2), 3, s2), 4, s2)

\* The module-level device: CUDA when available, else the CPU.
ModuleDevice(cuda) == IF cuda THEN "cuda" ELSE "cpu"

\* gausian_blur(grad, sigma): the gradient is brought to the CPU, filtered, and
\* the sum is returned on the module-level device.
gausian_blur(g, sigma, cuda) ==
    LET host == ToDevice(g, "cpu")
    IN  ToDevice(TensorAdd3(GaussianFilter(host, CascadeSigmas2(sigma)[1]),
                            GaussianFilter(host, CascadeSigmas2(sigma)[2]),
                            GaussianFilter(host, CascadeSigmas2(sigma)[3])),
                 ModuleDevice(cuda))

(***************************************************************************)
(* Inputs.                                                                 *)
(***************************************************************************)
ModelNames == {"vgg19", "vgg16", "unknown_model"}

TensorShapes ==
    {<<b, c, h, w>> : b \in 1..MaxBatch, c \in ChannelCounts, h \in 1..MaxH, w \in 1..MaxW}

\* Normalised values around the per-channel bounds: ch0 [-485/229, 515/229],
\* ch1 [-456/224, 544/224], ch2 [-406/225, 594/225].
NormLevels ==
    <<Rat(-3, 1), Rat(5, 2), Rat(-2, 1), Rat(0, 1), Rat(515, 229), Rat(-19, 10),
      Rat(1, 2), Rat(3, 1), Rat(-485, 229), Rat(12, 5), Rat(-456, 224)>>

\* Pixel intensities in [0, 1].
PixelLevels == <<Rat(0, 1), Rat(1, 1), Rat(1, 2), Rat(485, 1000), Rat(1, 255), Rat(3, 4), Rat(254, 255)>>

FromLevels(levels, shape, g) ==
    [shape |-> shape,
     val |-> [idx \in Indices(shape) |-> levels[((Linear(shape, idx) + g) % Len(levels)) + 1]]]

\* Normalised image tensors of every shape, values in and out of range.
ImageTensors == {FromLevels(NormLevels, s, g) : s \in TensorShapes, g \in 0..(MaxGen - 1)}

\* Channel-last RGB pixel images (H, W, 3): the arrays denormalize returns.
PixelImages ==
    {FromLevels(PixelLevels, <<h, w, 3>>, g) : h \in 1..MaxH, w \in 1..MaxW, g \in 0..(MaxGen - 1)}

\* Channel-first pixel tensors (C, H, W), grey or RGB.
PixelTensors ==
    {FromLevels(PixelLevels, <<c, h, w>>, g) :
        c \in {1, 3}, h \in 1..MaxH, w \in 1..MaxW, g \in 0..(MaxGen - 1)}

\* Pixel tensors that are not 3-d: RGB with a batch dimension of 1, and planes.
PixelTensorsNot3d ==
    {FromLevels(PixelLevels, <<1, 3, h, w>>, 0) : h \in 1..MaxH, w \in 1..MaxW}
        \cup {FromLevels(PixelLevels, <<MaxH, w>>, 0) : w \in 1..MaxW}

\* What normalize is called with: torch tensors, and image arrays.
NormalizeInputs ==
    {[x |-> t, type |-> "tensor"] : t \in PixelTensors \cup PixelTensorsNot3d}
        \cup {[x |-> t, type |-> "ndarray"] : t \in PixelImages}

\* Tensors whose elements are pairwise distinct: element = its row-major position.
DistinctTensors ==
    {[shape |-> s, val |-> [idx \in Indices(s) |-> RInt(Linear(s, idx))]] :
        s \in {x \in TensorShapes : x[2] \in {1, 3}}}

ShiftValues == {-MaxShift, -1, 0, 1, MaxShift}

KernelSizes == {3, 5, 7, 9}

Sigmas == {1, 2}

\* Square gradients, gradients MaxDim wide of every height, and the gradient
\* MaxDim high and one wide.
GradShapes ==
    {s \in {<<1, 3, h, w>> : h \in 1..MaxDim, w \in 1..MaxDim} :
        s[3] = s[4] \/ s[4] = MaxDim \/ (s[3] = MaxDim /\ s[4] = 1)}

\* Devices a tensor can live on, on a host with or without CUDA.
Devices(cuda) == IF cuda THEN {"cpu", "cuda"} ELSE {"cpu"}

\* Gradients: constant (0, 1, -2), one channel set, and a ramp.
GradTensors ==
    UNION {{[shape |-> s, val |-> [idx \in Indices(s) |-> 0]],
            [shape |-> s, val |-> [idx \in Indices(s) |-> Scale]],
            [shape |-> s, val |-> [idx \in Indices(s) |-> -2 * Scale]],
            [shape |-> s, val |-> [idx \in Indices(s) |-> IF idx[2] = 0 THEN Scale ELSE 0]],
            [shape |-> s, val |-> [idx \in Indices(s) |->
                                     (Linear(s, idx) - 3) * (Scale \div 10)]]} : s \in GradShapes}

(***************************************************************************)
(* State machine.                                                          *)
(***************************************************************************)
NoCall == [op |-> "none", model_name |-> "", h_shift |-> 0, w_shift |-> 0,
           should_undo |-> FALSE, src |-> "", kernel_size |-> 0, sigma |-> 0,
           in |-> NoTensor, in_type |-> "tensor", out |-> NoTensor, err |-> "none"]

Init ==
    /\ utils = NoUtils
    /\ tensor = NoTensor
    /\ smoother = NoSmoother
    /\ grad = NoTensor
    /\ call = NoCall
    /\ cuda_available \in BOOLEAN

\* Utils(model_name)
UtilsInit(model_name) ==
    /\ ~utils.constructed
    /\ utils' = UtilsNew(model_name).obj
    /\ call' = [NoCall EXCEPT !.op = "init", !.model_name = model_name,
                              !.err = UtilsNew(model_name).err]
    /\ UNCHANGED <<tensor, smoother, grad, cuda_available>>

\* The caller obtains a normalised image tensor.
LoadTensor(t) ==
    /\ utils.constructed
    /\ tensor = NoTensor
    /\ tensor' = t
    /\ call' = NoCall
    /\ UNCHANGED <<utils, smoother, grad, cuda_available>>

\* utils.normalize(x): the caller holds the tensor returned.
NormalizeAct(x, type) ==
    /\ utils.constructed
    /\ tensor = NoTensor
    /\ \E tv \in TorchvisionEras :
          LET r == TNormalize(utils, x, type, tv)
          IN  /\ tensor' = r.out
              /\ call' = [NoCall EXCEPT !.op = "normalize", !.in = x, !.in_type = type,
                                        !.out = r.out, !.err = r.err]
    /\ UNCHANGED <<utils, smoother, grad, cuda_available>>

\* utils.clip(tensor): in place.
ClipAct ==
    /\ utils.constructed
    /\ Len(tensor.shape) = 4
    /\ tensor' = Clip(utils, tensor)
    /\ call' = [NoCall EXCEPT !.op = "clip", !.in = tensor, !.out = Clip(utils, tensor),
                              !.err = ClipErr(utils, tensor)]
    /\ UNCHANGED <<utils, smoother, grad, cuda_available>>

\* utils.denormalize(tensor)
DenormalizeAct ==
    /\ utils.constructed
    /\ tensor # NoTensor
    /\ LET r == Denormalize(utils, tensor)
       IN  call' = [NoCall EXCEPT !.op = "denormalize", !.in = tensor,
                                  !.out = r.out, !.err = r.err]
    /\ UNCHANGED <<utils, tensor, smoother, grad, cuda_available>>

\* utils.random_circular_spatial_shift(x, h_shift, w_shift, should_undo), x the
\* tensor held or the tensor the previous shift returned.
ShiftAct(src, h_shift, w_shift, should_undo) ==
    /\ utils.constructed
    /\ Len(tensor.shape) = 4
    /\ src = "returned" => call.op = "shift"
    /\ LET x == IF src = "held" THEN tensor ELSE call.out
       IN  call' = [NoCall EXCEPT !.op = "shift", !.src = src, !.h_shift = h_shift,
                                  !.w_shift = w_shift, !.should_undo = should_undo,
                                  !.in = x,
                                  !.out = random_circular_spatial_shift(x, h_shift, w_shift,
                                                                        should_undo)]
    /\ UNCHANGED <<utils, tensor, smoother, grad, cuda_available>>

\* The caller drops the tensor.
Release ==
    /\ tensor # NoTensor
    /\ tensor' = NoTensor
    /\ call' = NoCall
    /\ UNCHANGED <<utils, smoother, grad, cuda_available>>

NextCodec ==
    \/ \E n \in ModelNames : UtilsInit(n)
    \/ \E t \in ImageTensors : LoadTensor(t)
    \/ \E p \in NormalizeInputs : NormalizeAct(p.x, p.type)
    \/ ClipAct
    \/ DenormalizeAct
    \/ Release

SpecCodec == Init /\ [][NextCodec]_vars

NextJitter ==
    \/ \E n \in ModelNames : UtilsInit(n)
    \/ \E t \in DistinctTensors : LoadTensor(t)
    \/ \E src \in {"held", "returned"}, dy \in ShiftValues, dx \in ShiftValues,
          undo \in BOOLEAN : ShiftAct(src, dy, dx, undo)
    \/ Release

SpecJitter == Init /\ [][NextJitter]_vars

\* CascadeGaussianSmoothing(kernel_size, sigma)
SmootherInit(kernel_size, sigma) ==
    /\ ~smoother.constructed
    /\ \E e \in CudaErrors :
          LET r == SmootherNew(kernel_size, sigma, cuda_available, e)
          IN  /\ smoother' = r.obj
              /\ call' = [NoCall EXCEPT !.op = "smoother_init", !.kernel_size = kernel_size,
                                        !.sigma = sigma, !.err = r.err]
    /\ UNCHANGED <<utils, tensor, grad, cuda_available>>

\* The caller obtains a gradient, on one of the host's devices.
SetGrad(g, d) ==
    /\ utils.constructed
    /\ d \in Devices(cuda_available)
    /\ grad = NoTensor
    /\ grad' = ToDevice(g, d)
    /\ call' = NoCall
    /\ UNCHANGED <<utils, tensor, smoother, cuda_available>>

\* smoother(grad): the caller smooths a gradient once, by one of the two paths.
ForwardAct ==
    /\ smoother.constructed
    /\ grad # NoTensor
    /\ call.op = "none"
    /\ LET r == Forward(smoother, grad)
       IN  call' = [NoCall EXCEPT !.op = "forward", !.kernel_size = smoother.kernel_size,
                                  !.sigma = smoother.sigma, !.in = grad,
                                  !.out = r.out, !.err = r.err]
    /\ UNCHANGED <<utils, tensor, smoother, grad, cuda_available>>

\* utils.gausian_blur(grad, sigma)
GausianBlurAct(sigma) ==
    /\ utils.constructed
    /\ grad # NoTensor
    /\ call.op = "none"
    /\ call' = [NoCall EXCEPT !.op = "gausian_blur", !.sigma = sigma, !.in = grad,
                              !.out = gausian_blur(grad, sigma, cuda_available)]
    /\ UNCHANGED <<utils, tensor, smoother, grad, cuda_available>>

\* The caller drops the gradient.
ReleaseGrad ==
    /\ grad # NoTensor
    /\ grad' = NoTensor
    /\ call' = NoCall
    /\ UNCHANGED <<utils, tensor, smoother, cuda_available>>

NextSmooth ==
    \/ \E n \in ModelNames : UtilsInit(n)
    \/ \E k \in KernelSizes, sg \in Sigmas : SmootherInit(k, sg)
    \/ \E g \in GradTensors, d \in {"cpu", "cuda"} : SetGrad(g, d)
    \/ ForwardAct
    \/ \E sg \in Sigmas : GausianBlurAct(sg)
    \/ ReleaseGrad

SpecSmooth == Init /\ [][NextSmooth]_vars

Next == NextCodec \/ NextJitter \/ NextSmooth

Spec == Init /\ [][Next]_vars

(***************************************************************************)
(* Properties of the Utils object.                                         *)
(***************************************************************************)
IsImageTensor(t) == Len(t.shape) = 4 /\ t.shape[1] = 1 /\ t.shape[2] = 3

\* C1: a shift by (dy, dx) followed by a shift of its result with the same
\* offsets and should_undo=True returns the original tensor, element for
\* element, also for negative offsets and offsets larger than H or W.
C1_ShiftInvertible ==
    [][(/\ call.op = "shift" /\ ~call.should_undo
        /\ call'.op = "shift" /\ call'.should_undo
        /\ call'.h_shift = call.h_shift /\ call'.w_shift = call.w_shift
        /\ call'.in = call.out)
       => call'.out = call.in]_vars

C1_Witness ==
    /\ call.op = "shift" /\ call.should_undo /\ call.src = "returned"
    /\ call.h_shift = MaxShift /\ call.w_shift = -1
    /\ call.in.shape[3] < MaxShift /\ call.in.shape[4] = MaxW
    /\ call.in # tensor
    /\ call.out = tensor

\* C2: after clip of a (1, 3, H, W) tensor every element of channel c lies in
\* [-mean[c]/stdv[c], (1 - mean[c])/stdv[c]], and denormalize of the clipped
\* tensor yields pixel values in [0, 1].
C2_ClampCorrect ==
    [][/\ (call'.op = "clip" /\ IsImageTensor(call'.in))
            => /\ call'.err = "none"
               /\ call'.out = tensor'
               /\ \A idx \in Indices(tensor'.shape) :
                    /\ RLe(ChLo(utils, idx[2]), tensor'.val[idx])
                    /\ RLe(tensor'.val[idx], ChHi(utils, idx[2]))
       /\ (call.op = "clip" /\ IsImageTensor(call.in) /\ call'.op = "denormalize")
            => /\ call'.in = call.out
               /\ call'.err = "none"
               /\ \A idx \in Indices(call'.out.shape) :
                    /\ RLe(RInt(0), call'.out.val[idx])
                    /\ RLe(call'.out.val[idx], RInt(1))]_vars

C2_Witness ==
    /\ call.op = "clip" /\ IsImageTensor(call.in)
    /\ \E idx \in Indices(call.in.shape) : RLt(call.in.val[idx], ChLo(utils, idx[2]))
    /\ \E idx \in Indices(call.in.shape) : RLt(ChHi(utils, idx[2]), call.in.val[idx])
    /\ \E idx \in Indices(call.in.shape) :
            idx[2] = 2 /\ call.in.val[idx] = call.out.val[idx]
                       /\ RLt(ChHi(utils, 0), call.in.val[idx])

\* C6: a second clip changes nothing: clip(clip(t)) = clip(t).
C6_ClampIdempotent ==
    [][(call.op = "clip" /\ call'.op = "clip" /\ call'.in = call.out)
       => call'.out = call.out]_vars

C6_Witness ==
    /\ call.op = "clip"
    /\ call.out = call.in
    /\ tensor \notin ImageTensors
    /\ tensor.shape = <<1, 3, MaxH, MaxW>>

C8_UnknownProfile ==
    /\ (call.op = "init" /\ call.model_name # "vgg19")
            => call.err = "KeyError" /\ ~utils.constructed
    /\ (call.op = "init" /\ call.model_name = "vgg19")
            => call.err = "none" /\ utils.constructed
    /\ utils.constructed
            => /\ utils.model_name = "vgg19"
               /\ utils.mean = <<Rat(485, 1000), Rat(456, 1000), Rat(406, 1000)>>
               /\ utils.stdv = <<Rat(229, 1000), Rat(224, 1000), Rat(225, 1000)>>
               /\ utils.img_size = 600

C8_Witness ==
    /\ call.op = "init"
    /\ call.model_name = "unknown_model"
    /\ call.err = "KeyError"
    /\ utils = NoUtils

C10_CircularRoll ==
    (call.op = "shift" /\ ~call.should_undo) =>
        /\ call.out.shape = call.in.shape
        /\ \A idx \in Indices(call.in.shape) :
              call.out.val[<<idx[1], idx[2],
                             (idx[3] + call.h_shift) % call.in.shape[3],
                             (idx[4] + call.w_shift) % call.in.shape[4]>>]
                = call.in.val[idx]
        /\ {call.out.val[idx] : idx \in Indices(call.out.shape)}
                = {call.in.val[idx] : idx \in Indices(call.in.shape)}
        /\ call.src = "held" => tensor = call.in

C10_Witness ==
    /\ call.op = "shift" /\ ~call.should_undo
    /\ call.in.shape = <<MaxBatch, 3, MaxH, MaxW>>
    /\ call.h_shift = MaxShift /\ call.w_shift = -1
    /\ call.out # call.in

(***************************************************************************)
(* Properties of the smoothing paths.                                      *)
(***************************************************************************)
\* Equal up to the rounding of the fixed-point arithmetic (2 percent of 1.0).
Close(a, b) == Abs(a - b) <= Scale \div 50

IsConstant(t) == \A idx \in Indices(t.shape) : t.val[idx] = t.val[<<0, 0, 0, 0>>]

ChannelIsZero(t, c) == \A idx \in Indices(t.shape) : idx[2] = c => t.val[idx] = 0

\* C3 as stated: forward of an all-zero tensor is all-zero and forward of a
\* tensor of constant k is (approximately) the constant k.
C3_ConstantPreserved ==
    (call.op = "forward" /\ call.err = "none" /\ IsConstant(call.in)) =>
        \A idx \in Indices(call.out.shape) :
            /\ call.in.val[idx] = 0 => call.out.val[idx] = 0
            /\ Close(call.out.val[idx], call.in.val[idx])

\* C3 amended: whenever forward returns (the smoother exists, so the host has
\* CUDA, and the input is on the CUDA device), forward of an all-zero tensor is
\* all-zero, and forward of a tensor of constant k is (approximately) 3 * k:
\* the three filtered copies, each of unit gain, are summed.
C3_ConstantTripled ==
    (call.op = "forward" /\ call.err = "none" /\ IsConstant(call.in)) =>
        /\ cuda_available /\ call.in.device = "cuda" /\ call.out.device = "cuda"
        /\ call.out.shape = call.in.shape
        /\ \A idx \in Indices(call.out.shape) :
            /\ call.in.val[idx] = 0 => call.out.val[idx] = 0
            /\ Close(call.out.val[idx], 3 * call.in.val[idx])

C3_Witness ==
    /\ call.op = "forward" /\ call.err = "none"
    /\ call.kernel_size = 9 /\ call.sigma = 2
    /\ IsConstant(call.in)
    /\ call.in.val[<<0, 0, 0, 0>>] = -2 * Scale
    /\ call.in.shape = <<1, 3, MaxDim, MaxDim>>
    /\ call.in.device = "cuda"
    /\ call.out.shape = call.in.shape

\* C4 as stated: gausian_blur(grad, sigma) computes the same function as
\* forward of a smoother built with that sigma, and an output channel depends
\* only on the same input channel (a zero input channel gives a zero output
\* channel).
C4_BlurEquivalent ==
    (call.op = "gausian_blur" /\ smoother.constructed /\ call.sigma = smoother.sigma
        /\ Forward(smoother, call.in).err = "none") =>
        /\ call.out.shape = Forward(smoother, call.in).out.shape
        /\ \A idx \in Indices(call.out.shape) :
                Close(call.out.val[idx], Forward(smoother, call.in).out.val[idx])
        /\ \A c \in 0..2 : ChannelIsZero(call.in, c) => ChannelIsZero(call.out, c)

\* C5 as stated: for kernel sizes 3, 5, 7, 9 forward returns a tensor of the
\* shape (1, 3, H, W) of its input, for every H and W.
C5_ShapePreserved ==
    (call.op = "forward" /\ call.kernel_size \in {3, 5, 7, 9}) =>
        /\ call.err = "none"
        /\ call.out.shape = call.in.shape

\* C5 amended: the smoother is constructed only on a host with CUDA (the
\* constructor raises otherwise and builds nothing); its forward returns a
\* tensor of the shape (1, 3, H, W) of its input when the input is on the CUDA
\* device and H and W both exceed kernel_size // 2; otherwise the reflect
\* padding or the convolution raises and nothing is returned.
C5_ShapePreservedAbovePad ==
    /\ call.op = "smoother_init" =>
            /\ call.err = "none" <=> cuda_available
            /\ smoother.constructed <=> cuda_available
    /\ (call.op = "forward" /\ call.kernel_size \in {3, 5, 7, 9}) =>
            /\ cuda_available
            /\ IF /\ call.in.device = "cuda"
                  /\ call.in.shape[3] > call.kernel_size \div 2
                  /\ call.in.shape[4] > call.kernel_size \div 2
               THEN call.err = "none" /\ call.out.shape = call.in.shape
               ELSE call.err = "RuntimeError" /\ call.out = NoTensor

C5_Witness ==
    /\ call.op = "forward" /\ call.err = "none"
    /\ call.kernel_size = 9
    /\ call.in.shape[3] = 5 /\ call.in.shape[4] = MaxDim
    /\ call.in.device = "cuda"
    /\ call.out.shape = call.in.shape
    /\ ~IsConstant(call.out)

=============================================================================
